---- MODULE Spec2Model ----
(***************************************************************************)
(* Bastion-mediated tunnel session manager of adsops-utils:                *)
(*   scripts/python/backend_sessions.py  (start_tunnel, list_tunnels,      *)
(*                                        close_tunnel, close_all_tunnels, *)
(*                                        quick_tunnel)                    *)
(*   scripts/python/bastion.py           (delete_session)                  *)
(*   scripts/python/jump_host.py         (tunnel)                          *)
(*   scripts/python/common.py            (run_oci_command, confirm_action) *)
(*                                                                         *)
(* The durable state is the tunnel directory (one JSON file per local      *)
(* port), the OS process table and the sessions held by the Bastion        *)
(* Control API.  Every command line invocation is a process of its own;    *)
(* its local variables live in a frame that is wiped when it exits.  Each  *)
(* action is one system call or one API call of a command, so that         *)
(* processes can die, and process ids can be reused, between the calls.    *)
(***************************************************************************)
EXTENDS Integers, Sequences, FiniteSets, TLC

VARIABLES
    sessions,   \* Bastion Control API: session id -> lifecycle state
    procs,      \* OS process table: pid -> [kind, spawn]
    registry,   \* TUNNEL_DIR: local port -> text of tunnel-<port>.json (domain = files present)
    owner,      \* per local port, the Popen call whose pid the file holds (0: none); history only
    passed,     \* per local port, the arguments of the registration that wrote the file; history only
    tunnels,    \* per Popen call, what became of the tunnel it spawned; history only
    nspawn,     \* number of Popen calls made so far
    inv         \* per invocation slot, the frame of the running command

vars == <<sessions, procs, registry, owner, passed, tunnels, nspawn, inv>>

----------------------------------------------------------------------------
(* Bounds and sample inputs *)

MaxPid == 2
MaxSpawn == 2
MaxSession == 1
MaxTarget == 1
NumInv == 2
\* polls of the session's state that the CLI makes before its wait gives up
MaxWait == 2

Pids == 1..MaxPid
Spawns == 1..MaxSpawn
Invs == 1..NumInv

\* local ports as the command line passes them: strings (argv)
Ports == {"5432", "8080"}
\* <<target_host, target_port>>
TargetList == << <<"10.0.1.5", "5432">>, <<"10.0.2.9", "3306">>, <<"10.0.3.7", "6379">> >>
Targets == {TargetList[k] : k \in 1..MaxTarget}
SessionNames == <<"ocid1.bastionsession.a", "ocid1.bastionsession.b",
                  "ocid1.bastionsession.c">>
SessionIds == {SessionNames[k] : k \in 1..MaxSession}
BastionEndpoint == "host.bastion.example"

\* lifecycle states of a session; "NONE" is an id the API does not know
Lifecycle == {"CREATING", "ACTIVE", "DELETING", "DELETED", "FAILED"}

----------------------------------------------------------------------------
(* Frames *)

NoPid == 0
NoData == [pid |-> 0, session_id |-> "", local_port |-> "",
           target_host |-> "", target_port |-> "", bastion_endpoint |-> ""]

IdleFrame ==
    [cmd |-> "idle", pc |-> "idle", sid |-> "", port |-> "", target |-> <<"", "">>,
     bg |-> TRUE, confirmed |-> FALSE, state |-> "", endpoint |-> "",
     pid |-> NoPid, spawn |-> 0, started |-> FALSE,
     files |-> {}, cur |-> "", data |-> NoData, seen |-> {}, out |-> {},
     sig |-> {}, found |-> FALSE, pre |-> <<>>, exit |-> "none", err |-> "",
     ret |-> NoPid, created |-> "", polls |-> 0, log |-> <<>>, command |-> <<>>]
\* (pre: the tunnel directory as the command found it; history only)
\* (created: the session the create request of this command made; polls: the
\* polls the CLI has made while waiting for it)
\* (log: the requests, spawns and signals of the command so far, each with
\* how it went; history only)
\* (command: the connection command of connect_session, as a list of words)

\* the frame of a command that has just been started from the shell
NewFrame(c, p) == [IdleFrame EXCEPT !.cmd = c, !.pc = p]

\* normal return from the command: exit status 0
Finish(f) == [f EXCEPT !.pc = "done", !.exit = "ok"]

\* an exception e that nothing catches ends the command: non-zero exit status
Raise(f, e) == [f EXCEPT !.pc = "done", !.exit = "error", !.err = e]

\* sys.exit(1)
Abort(f) == Raise(f, "SystemExit")

----------------------------------------------------------------------------
(* common.py: run_oci_command *)

\* How one `oci ...` process can end: exit status 0 with a JSON document on
\* stdout ("json"), exit status 0 with empty or unparsable stdout ("empty"),
\* or a non-zero exit status ("fail": the API refused the request or could
\* not be reached).  A resource the API does not know always makes the CLI
\* exit non-zero.
CliExit(known) == IF known THEN {"json", "empty", "fail"} ELSE {"fail"}

\* (a variant called with check=False: the error is logged and None returned)
RunOciCommandUnchecked(known) ==
    {[cli |-> c, result |-> IF c = "json" THEN "data" ELSE "none"] : c \in CliExit(known)}

\* What the call comes to for its caller, all callers passing check=True:
\* parsed JSON with a "data" member, None (empty stdout, or the
\* JSONDecodeError swallowed), or the CalledProcessError re-raised after
\* logging.
RunOciCommand(known) ==
    {[cli |-> c, result |-> CASE c = "json" -> "data"
                              [] c = "empty" -> "none"
                              [] c = "fail" -> "raise"] : c \in CliExit(known)}

\* The same call with output_json=False (delete): never any data.
RunOciCommandNoJson(known) ==
    {[cli |-> c, result |-> IF c = "fail" THEN "raise" ELSE "none"] :
        c \in CliExit(known) \ {"empty"}}

\* the command's log with one more entry: what was done and how it went
Logged(f, what, how) == [f EXCEPT !.log = Append(@, <<what, how>>)]

\* the entry of a request to the Bastion Control API that ended as o
Requested(f, request, o) ==
    Logged(f, request, IF o.cli = "fail" THEN "fail" ELSE "ok")

----------------------------------------------------------------------------
(* json.dump / json.load of a tunnel record *)

Keys == <<"pid", "session_id", "local_port", "target_host", "target_port",
          "bastion_endpoint">>

\* (a variant that files the target port under "local_port" and the local
\* port under "target_port")
TunnelInfoSwapped(pid, sid, lport, target, endpoint) ==
    [pid |-> pid, session_id |-> sid, local_port |-> target[2],
     target_host |-> target[1], target_port |-> lport,
     bastion_endpoint |-> endpoint]

\* the dict written by start_tunnel
TunnelInfo(pid, sid, lport, target, endpoint) ==
    [pid |-> pid, session_id |-> sid, local_port |-> lport,
     target_host |-> target[1], target_port |-> target[2],
     bastion_endpoint |-> endpoint]

\* json.dump: the members in insertion order, as <<key, value>> pairs
JsonDump(d) == [k \in 1..Len(Keys) |-> <<Keys[k], d[Keys[k]]>>]

\* json.load: the dict of the members of the text; an empty file is no JSON
JsonValid(text) == Len(text) > 0
JsonLoad(text) ==
    [key \in {text[k][1] : k \in 1..Len(text)} |->
        text[CHOOSE k \in 1..Len(text) : text[k][1] = key][2]]

----------------------------------------------------------------------------
(* The tunnel directory *)

\* TUNNEL_DIR.glob("tunnel-*.json")
Glob == DOMAIN registry

\* tunnel_file.exists()
Exists(p) == p \in DOMAIN registry

\* (a variant that keeps all records in one file: opening it for one port
\* empties the record of every port)
FileTruncateAll(reg, p) == [q \in DOMAIN reg \cup {p} |-> <<>>]

\* open(tunnel_file, 'w'): creates or truncates the file
FileTruncate(reg, p) == [q \in DOMAIN reg \cup {p} |-> IF q = p THEN <<>> ELSE reg[q]]

\* f.write of the whole text
FileWrite(reg, p, text) == [q \in DOMAIN reg \cup {p} |-> IF q = p THEN text ELSE reg[q]]

\* tunnel_file.unlink()
FileUnlink(reg, p) == [q \in DOMAIN reg \ {p} |-> reg[q]]

\* with open(tunnel_file) as f: data = json.load(f), when it raises
OpenError(p) == IF Exists(p) THEN "JSONDecodeError" ELSE "FileNotFoundError"

----------------------------------------------------------------------------
(* The OS process layer *)

FreeProc == [kind |-> "free", spawn |-> 0]
OtherProc == [kind |-> "other", spawn |-> 0]
TunnelProc(n) == [kind |-> "tunnel", spawn |-> n]

\* os.kill(pid, sig) raises OSError exactly when no process has that pid.
\* (A process of another user answers EPERM, an OSError too: for both kill
\* calls it is the same as no process, so "other" stands for a process of
\* the same user.)
KillSucceeds(pid) == procs[pid].kind # "free"

\* (a variant that takes every recorded pid for a running tunnel)
ProbeStatusNoProbe(pid) == "RUNNING"

\* os.kill(pid, 0) in list_tunnels: the status computed from the probe
ProbeStatus(pid) == IF KillSucceeds(pid) THEN "RUNNING" ELSE "DEAD"

\* the tunnel process of Popen call n is running
TunnelAlive(n) == \E x \in Pids : procs[x] = TunnelProc(n)

\* the process that the record of port p was written for is running, under
\* the pid the record holds
OwnerAlive(p) ==
    /\ Exists(p)
    /\ owner[p] # 0
    /\ JsonValid(registry[p])
    /\ procs[JsonLoad(registry[p]).pid] = TunnelProc(owner[p])

----------------------------------------------------------------------------
(* Initial state: no session, no tunnel process, an empty tunnel directory *)

Init ==
    /\ sessions = [s \in SessionIds |-> "NONE"]
    /\ procs = [x \in Pids |-> FreeProc]
    /\ registry = <<>>
    /\ owner = [p \in Ports |-> 0]
    /\ passed = [p \in Ports |-> NoData]
    /\ tunnels = [n \in Spawns |-> "none"]
    /\ nspawn = 0
    /\ inv = [i \in Invs |-> IdleFrame]

\* the invocation in slot i takes a step to frame f
SetFrame(i, f) == inv' = [inv EXCEPT ![i] = f]

\* no invocation is running, and i is the first slot (the slots are alike)
AllIdle(i) == (\A j \in Invs : inv[j].pc = "idle") /\ (\A j \in Invs : i <= j)

\* i is the first slot that is free
FirstIdle(i) == inv[i].pc = "idle" /\ (\A j \in Invs : j < i => inv[j].pc # "idle")

----------------------------------------------------------------------------
(* The environment: the OS and the Bastion Control API *)

\* (a variant with a reaper: the record that holds the pid goes with the process)
ProcessDiesReaped(x) ==
    /\ procs[x].kind # "free"
    /\ procs' = [procs EXCEPT ![x] = FreeProc]
    /\ registry' = [q \in {p \in DOMAIN registry :
                              ~(registry[p] # <<>> /\ registry[p][1][2] = x)} |->
                        registry[q]]
    /\ UNCHANGED <<sessions, owner, passed, tunnels, nspawn, inv>>

\* a process ends on its own or is killed from outside the tool
ProcessDies(x) ==
    /\ procs[x].kind # "free"
    /\ procs' = [procs EXCEPT ![x] = FreeProc]
    /\ UNCHANGED <<sessions, registry, owner, passed, tunnels, nspawn, inv>>

\* the OS gives a free pid to a process that is no tunnel of this tool
PidReused(x) ==
    /\ procs[x].kind = "free"
    /\ procs' = [procs EXCEPT ![x] = OtherProc]
    /\ UNCHANGED <<sessions, registry, owner, passed, tunnels, nspawn, inv>>

\* the session moves on server-side: creation ends, the TTL runs out, a
\* requested deletion completes
SessionAdvances(s) ==
    /\ \E st \in Lifecycle :
        /\ \/ sessions[s] = "CREATING" /\ st \in {"ACTIVE", "FAILED"}
           \/ sessions[s] = "ACTIVE" /\ st = "DELETED"
           \/ sessions[s] = "DELETING" /\ st = "DELETED"
        /\ sessions' = [sessions EXCEPT ![s] = st]
    /\ UNCHANGED <<procs, registry, owner, passed, tunnels, nspawn, inv>>

----------------------------------------------------------------------------
(* backend_sessions.py: quick_tunnel, connect_*; create_port_forward_session *)

\* the commands that create a session and launch a tunnel through it
Orchestrators == {"quick_tunnel", "connect_db"}

StartQuickTunnel(i, port, target) ==
    /\ inv[i].pc = "idle"
    /\ SetFrame(i, [NewFrame("quick_tunnel", "create") EXCEPT
                        !.port = port, !.target = target, !.pre = registry])
    /\ UNCHANGED <<sessions, procs, registry, owner, passed, tunnels, nspawn>>

\* connect_postgres, connect_mysql, connect_redis, connect_mongodb: alike but
\* for the client they run at the end
StartConnectDb(i, port, target) ==
    /\ inv[i].pc = "idle"
    /\ SetFrame(i, [NewFrame("connect_db", "create") EXCEPT
                        !.port = port, !.target = target, !.pre = registry])
    /\ UNCHANGED <<sessions, procs, registry, owner, passed, tunnels, nspawn>>

\* (a variant whose callers take the missing session id for a normal end)
CreateFailedReturns(f) == Finish(f)

\* No session id came back.  quick_tunnel and connect_*: if not session_id:
\* sys.exit(1).  jump_host.connect: the if has no else, the command returns.
CreateFailed(f) == IF f.cmd = "jh_connect" THEN Finish(f) ELSE Abort(f)

\* The create request, sent by `oci ... --wait-for-state ACTIVE`.
\*   usage:   no bastion id: nothing is sent, None is returned
\*   refused: the API refuses the request: the CLI exits non-zero, no session
\*   accepted: the session exists, CREATING; the CLI goes on to wait for it
CreatePortForwardSession(i) ==
    LET f == inv[i] IN
    /\ f.pc = "create"
    /\ \/ /\ SetFrame(i, CreateFailed(f))
          /\ UNCHANGED sessions
       \/ /\ SetFrame(i, Raise(Logged(f, "create", "fail"), "CalledProcessError"))
          /\ UNCHANGED sessions
       \/ \E s \in SessionIds :
            /\ sessions[s] = "NONE"
            /\ sessions' = [sessions EXCEPT ![s] = "CREATING"]
            /\ SetFrame(i, [Logged(f, "create", "ok") EXCEPT !.created = s,
                                                            !.pc = "wait"])
    /\ UNCHANGED <<procs, registry, owner, passed, tunnels, nspawn>>

\* (a variant of the CLI whose wait has no time limit)
WaitExpiredNever(f) == FALSE

\* the CLI's wait has used up its time (--max-wait-seconds, left at the
\* CLI's default: the commands pass no limit of their own)
WaitExpired(f) == f.polls >= MaxWait

\* One poll of the CLI's wait for ACTIVE.
\*   ACTIVE seen: the CLI prints the session and exits 0; the id is returned,
\*     or None when stdout was not usable
\*   time used up, or the session FAILED: the CLI exits non-zero
\*   otherwise: sleep and poll again
WaitForState(i) ==
    LET f == inv[i]
        s == f.created
        g == [f EXCEPT !.polls = 0]
    IN
    /\ f.pc = "wait"
    /\ IF sessions[s] = "ACTIVE"
         THEN \E c \in CliExit(TRUE) \ {"fail"} :
                IF c = "json"
                  THEN SetFrame(i, [g EXCEPT !.sid = s,
                                             !.pc = IF f.cmd = "jh_connect"
                                                      THEN "jc_system"
                                                      ELSE "get_session"])
                  ELSE SetFrame(i, CreateFailed(g))
         ELSE \/ /\ WaitExpired(f) \/ sessions[s] = "FAILED"
                 /\ SetFrame(i, Raise(Logged(g, "wait", "fail"), "CalledProcessError"))
              \/ /\ ~WaitExpired(f)
                 /\ SetFrame(i, [f EXCEPT !.polls = IF f.polls < MaxWait
                                                      THEN f.polls + 1 ELSE f.polls])
    /\ UNCHANGED <<sessions, procs, registry, owner, passed, tunnels, nspawn>>

----------------------------------------------------------------------------
(* backend_sessions.py: start_tunnel *)

StartStartTunnel(i, sid, port, target, bg) ==
    /\ inv[i].pc = "idle"
    /\ SetFrame(i, [NewFrame("start_tunnel", "get_session") EXCEPT
                        !.sid = sid, !.port = port, !.target = target, !.bg = bg])
    /\ UNCHANGED <<sessions, procs, registry, owner, passed, tunnels, nspawn>>

\* (a variant whose callers go on to delete the session they created)
ReturnNoneCleansUp(f) == [f EXCEPT !.ret = NoPid, !.confirmed = TRUE, !.pc = "ds_delete"]

\* start_tunnel returns None.  connect_*: if not pid: sys.exit(1).
\* quick_tunnel does not look at what start_tunnel returns, and ends.
ReturnNone(f) ==
    IF f.cmd = "connect_db" THEN Abort([f EXCEPT !.ret = NoPid])
                            ELSE Finish([f EXCEPT !.ret = NoPid])

\* (a variant of connect_* that runs the client at once)
ReturnPidSkipsDelay(f) ==
    IF f.cmd = "connect_db" THEN [f EXCEPT !.ret = f.pid, !.pc = "client"]
                            ELSE Finish([f EXCEPT !.ret = f.pid])

\* start_tunnel returns the pid.  connect_* go on to the settle delay; for
\* quick_tunnel it was the last statement.
ReturnPid(f) ==
    IF f.cmd = "connect_db" THEN [f EXCEPT !.ret = f.pid, !.pc = "sleep"]
                            ELSE Finish([f EXCEPT !.ret = f.pid])

\* (a variant that goes on with whatever the lookup returned)
LookupFailedNever(o) == FALSE

\* if not result or "data" not in result: log_error and return None
LookupFailed(o) == o.result = "none"

\* get-session: the lifecycle state comes back with the data and is not looked at
StGetSession(i) ==
    LET f == inv[i] IN
    /\ f.pc = "get_session"
    /\ \E o \in RunOciCommand(sessions[f.sid] # "NONE") :
         LET g == Requested(f, "get-session", o) IN
         IF o.result = "raise" THEN SetFrame(i, Raise(g, "CalledProcessError"))
         ELSE IF LookupFailed(o) THEN SetFrame(i, ReturnNone(g))
         ELSE SetFrame(i, [g EXCEPT
                  !.state = IF o.cli = "json" THEN sessions[f.sid] ELSE "",
                  !.pc = "get_bastion"])
    /\ UNCHANGED <<sessions, procs, registry, owner, passed, tunnels, nspawn>>

StGetBastion(i) ==
    LET f == inv[i] IN
    /\ f.pc = "get_bastion"
    /\ \E o \in RunOciCommand(TRUE) :
         LET g == Requested(f, "get-bastion", o) IN
         IF o.result = "raise" THEN SetFrame(i, Raise(g, "CalledProcessError"))
         ELSE IF LookupFailed(o) THEN SetFrame(i, ReturnNone(g))
         ELSE SetFrame(i, [g EXCEPT
                  !.endpoint = IF o.cli = "json" THEN BastionEndpoint ELSE "",
                  !.pc = "spawn"])
    /\ UNCHANGED <<sessions, procs, registry, owner, passed, tunnels, nspawn>>

\* background: subprocess.Popen(ssh_cmd).  Popen raises OSError when the
\* binary cannot be executed or no process can be made; otherwise it returns
\* a pid, whether ssh then keeps running or exits at once (bad arguments,
\* refused authentication): its output goes to DEVNULL and nobody waits.
StPopen(i) ==
    LET f == inv[i] IN
    /\ f.pc = "spawn"
    /\ f.bg
    /\ \/ /\ SetFrame(i, Raise(Logged(f, "Popen", "fail"), "OSError"))
          /\ UNCHANGED <<procs, nspawn>>
       \/ /\ nspawn < MaxSpawn
          /\ \E x \in Pids, runs \in BOOLEAN :
               /\ procs[x].kind = "free"
               /\ nspawn' = nspawn + 1
               /\ procs' = IF runs THEN [procs EXCEPT ![x] = TunnelProc(nspawn + 1)]
                                   ELSE procs
               /\ SetFrame(i, [Logged(f, "Popen", "ok") EXCEPT
                                   !.pid = x, !.spawn = nspawn + 1,
                                   !.started = runs, !.pc = "open"])
    /\ UNCHANGED <<sessions, registry, owner, passed, tunnels>>

\* (a variant that runs ssh as a child and waits for it: the function returns)
ExecdReturns(f) == Finish(Logged(f, "exec", "ok"))

\* os.execvp succeeded: the process is ssh now; nothing of the command is
\* left to run
Execd(f) == [Logged(f, "exec", "ok") EXCEPT !.pc = "execd"]

\* foreground: os.execvp("ssh", ssh_cmd) replaces the process image, or raises
StExec(i) ==
    LET f == inv[i] IN
    /\ f.pc = "spawn"
    /\ ~f.bg
    /\ \/ SetFrame(i, Raise(Logged(f, "exec", "fail"), "OSError"))
       \/ SetFrame(i, Execd(f))
    /\ UNCHANGED <<sessions, procs, registry, owner, passed, tunnels, nspawn>>

\* open(tunnel_file, 'w')
StOpen(i) ==
    LET f == inv[i] IN
    /\ f.pc = "open"
    /\ registry' = FileTruncate(registry, f.port)
    /\ owner' = [owner EXCEPT ![f.port] = 0]
    /\ passed' = [passed EXCEPT ![f.port] = NoData]
    /\ SetFrame(i, [Logged(f, "open", "ok") EXCEPT !.pc = "dump"])
    /\ UNCHANGED <<sessions, procs, tunnels, nspawn>>

\* json.dump({...}, f) and the close of the file; then the pid is returned
\* to the caller
StDump(i) ==
    LET f == inv[i] IN
    /\ f.pc = "dump"
    /\ registry' = FileWrite(registry, f.port,
                     JsonDump(TunnelInfo(f.pid, f.sid, f.port, f.target, f.endpoint)))
    /\ owner' = [owner EXCEPT ![f.port] = f.spawn]
    /\ passed' = [passed EXCEPT ![f.port] =
                    [pid |-> f.pid, session_id |-> f.sid, local_port |-> f.port,
                     target_host |-> f.target[1], target_port |-> f.target[2],
                     bastion_endpoint |-> f.endpoint]]
    /\ tunnels' = [tunnels EXCEPT ![f.spawn] = "registered"]
    /\ SetFrame(i, ReturnPid(f))
    /\ UNCHANGED <<sessions, procs, nspawn>>

\* the forwarding process that took the place of the command ends
ExecEnds(i) ==
    /\ inv[i].pc = "execd"
    /\ SetFrame(i, IdleFrame)
    /\ UNCHANGED <<sessions, procs, registry, owner, passed, tunnels, nspawn>>

\* the command's process exits; nothing of its frame is kept
Exit(i) ==
    /\ inv[i].pc = "done"
    /\ SetFrame(i, IdleFrame)
    /\ UNCHANGED <<sessions, procs, registry, owner, passed, tunnels, nspawn>>

----------------------------------------------------------------------------
(* backend_sessions.py: connect_*, after start_tunnel has returned a pid *)

\* time.sleep(2): "wait for tunnel to establish"; nothing is looked at
CdSleep(i) ==
    LET f == inv[i] IN
    /\ f.pc = "sleep"
    /\ SetFrame(i, [Logged(f, "sleep", "ok") EXCEPT !.pc = "client"])
    /\ UNCHANGED <<sessions, procs, registry, owner, passed, tunnels, nspawn>>

\* os.system("psql ..."): the client runs in the foreground until the user
\* leaves it; its exit status is not looked at, and the command ends
CdClient(i) ==
    LET f == inv[i] IN
    /\ f.pc = "client"
    /\ SetFrame(i, Finish(Logged(f, "client", "ok")))
    /\ UNCHANGED <<sessions, procs, registry, owner, passed, tunnels, nspawn>>

\* the entries of the command's log made for `what`
Entries(f, what) == {k \in 1..Len(f.log) : f.log[k][1] = what}

\* SIGINT while the command runs.  Ctrl+C at the terminal reaches every
\* process of the foreground process group: the command and the ssh that
\* Popen started (no start_new_session, no setsid: the child stays in the
\* group of the command); a kill -INT reaches the command alone.  ssh ends on
\* SIGINT.  In the command KeyboardInterrupt is raised and nothing catches
\* it; while os.system waits for the client the command ignores SIGINT.
Interrupt(i) ==
    LET f == inv[i] IN
    /\ f.pc \notin {"idle", "done", "execd"}
    /\ Entries(f, "SIGINT") = {}
    /\ \E group \in BOOLEAN :
         LET g == Logged(f, "SIGINT", IF group THEN "group" ELSE "pid") IN
         /\ procs' = IF group
                       THEN [x \in Pids |->
                               IF f.spawn # 0 /\ procs[x] = TunnelProc(f.spawn)
                                 THEN FreeProc ELSE procs[x]]
                       ELSE procs
         /\ SetFrame(i, IF f.pc \in {"client", "jc_system"}
                          THEN g ELSE Raise(g, "KeyboardInterrupt"))
    /\ UNCHANGED <<sessions, registry, owner, passed, tunnels, nspawn>>

----------------------------------------------------------------------------
(* backend_sessions.py: list_tunnels *)

StartListTunnels(i) ==
    /\ inv[i].pc = "idle"
    /\ SetFrame(i, NewFrame("list_tunnels", "lt_glob"))
    /\ UNCHANGED <<sessions, procs, registry, owner, passed, tunnels, nspawn>>

\* the line printed for a running tunnel
Line(data, status) ==
    <<data.pid, data.local_port, data.target_host, data.target_port, status>>

\* tunnels = list(TUNNEL_DIR.glob(...)); nothing there: "No active tunnels"
LtGlob(i) ==
    LET f == inv[i] IN
    /\ f.pc = "lt_glob"
    /\ IF Glob = {} THEN SetFrame(i, Finish(f))
                    ELSE SetFrame(i, [f EXCEPT !.files = Glob, !.pc = "lt_open"])
    /\ UNCHANGED <<sessions, procs, registry, owner, passed, tunnels, nspawn>>

\* next file of the loop (glob's order is any order): open and json.load;
\* a file that is gone, or holds no JSON, raises out of the command
LtOpen(i) ==
    LET f == inv[i] IN
    /\ f.pc = "lt_open"
    /\ IF f.files = {}
         THEN SetFrame(i, Finish(f))
         ELSE \E p \in f.files :
                IF Exists(p) /\ JsonValid(registry[p])
                  THEN SetFrame(i, [f EXCEPT !.files = f.files \ {p}, !.cur = p,
                                             !.data = JsonLoad(registry[p]),
                                             !.pc = "lt_probe"])
                  ELSE SetFrame(i, Raise([f EXCEPT !.files = f.files \ {p}, !.cur = p],
                                         OpenError(p)))
    /\ UNCHANGED <<sessions, procs, registry, owner, passed, tunnels, nspawn>>

\* os.kill(pid, 0); RUNNING: the line is printed; DEAD: the file is unlinked next
LtProbe(i) ==
    LET f == inv[i]
        status == ProbeStatus(f.data.pid)
        note == [port |-> f.cur, spawn |-> owner[f.cur], status |-> status,
                 probe |-> KillSucceeds(f.data.pid), alive |-> OwnerAlive(f.cur)]
    IN
    /\ f.pc = "lt_probe"
    /\ IF status = "RUNNING"
         THEN SetFrame(i, [f EXCEPT !.seen = f.seen \cup {note},
                                    !.out = f.out \cup {Line(f.data, status)},
                                    !.pc = "lt_open"])
         ELSE SetFrame(i, [f EXCEPT !.seen = f.seen \cup {note}, !.pc = "lt_unlink"])
    /\ UNCHANGED <<sessions, procs, registry, owner, passed, tunnels, nspawn>>

\* tunnel_file.unlink() of a dead tunnel's file
LtUnlink(i) ==
    LET f == inv[i] IN
    /\ f.pc = "lt_unlink"
    /\ IF Exists(f.cur)
         THEN /\ registry' = FileUnlink(registry, f.cur)
              /\ owner' = [owner EXCEPT ![f.cur] = 0]
              /\ passed' = [passed EXCEPT ![f.cur] = NoData]
              /\ SetFrame(i, [f EXCEPT !.pc = "lt_open"])
         ELSE /\ SetFrame(i, Raise(f, "FileNotFoundError"))
              /\ UNCHANGED <<registry, owner, passed>>
    /\ UNCHANGED <<sessions, procs, tunnels, nspawn>>

----------------------------------------------------------------------------
(* backend_sessions.py: close_tunnel *)

StartCloseTunnel(i, port) ==
    /\ inv[i].pc = "idle"
    /\ SetFrame(i, [NewFrame("close_tunnel", "ct_exists") EXCEPT
                        !.port = port, !.pre = registry])
    /\ UNCHANGED <<sessions, procs, registry, owner, passed, tunnels, nspawn>>

\* (a variant that goes on to open the missing file: FileNotFoundError)
CtNotFoundRaises(f) == Raise(f, "FileNotFoundError")

\* no file for the port: log_error and return
CtNotFound(f) == Finish(f)

\* if not tunnel_file.exists(): ...
CtExists(i) ==
    LET f == inv[i] IN
    /\ f.pc = "ct_exists"
    /\ IF Exists(f.port) THEN SetFrame(i, [f EXCEPT !.found = TRUE, !.pc = "ct_open"])
                         ELSE SetFrame(i, CtNotFound(f))
    /\ UNCHANGED <<sessions, procs, registry, owner, passed, tunnels, nspawn>>

CtOpen(i) ==
    LET f == inv[i] IN
    /\ f.pc = "ct_open"
    /\ IF Exists(f.port) /\ JsonValid(registry[f.port])
         THEN SetFrame(i, [f EXCEPT !.cur = f.port, !.data = JsonLoad(registry[f.port]),
                                    !.pc = "ct_kill"])
         ELSE SetFrame(i, Raise(f, OpenError(f.port)))
    /\ UNCHANGED <<sessions, procs, registry, owner, passed, tunnels, nspawn>>

\* what a SIGTERM sent to pid x reaches
Signalled(x) == [pid |-> x, kind |-> procs[x].kind, spawn |-> procs[x].spawn]

\* (a variant that does not catch the OSError of the kill)
CtKillFailedRaises(f) == Raise(f, "OSError")

\* except OSError as e: log_warn(...), and on to the unlink
CtKillFailed(f) == [f EXCEPT !.pc = "ct_unlink"]

\* os.kill(pid, signal.SIGTERM): the process that has the pid ends
CtKill(i) ==
    LET f == inv[i]
        x == f.data.pid
    IN
    /\ f.pc = "ct_kill"
    /\ IF KillSucceeds(x)
         THEN /\ procs' = [procs EXCEPT ![x] = FreeProc]
              /\ SetFrame(i, [f EXCEPT !.sig = f.sig \cup {Signalled(x)},
                                       !.pc = "ct_unlink"])
         ELSE /\ SetFrame(i, CtKillFailed(f))
              /\ UNCHANGED procs
    /\ UNCHANGED <<sessions, registry, owner, passed, tunnels, nspawn>>

\* the record of port p is gone by a close
MarkClosed(p) ==
    IF owner[p] # 0 THEN [tunnels EXCEPT ![owner[p]] = "closed"] ELSE tunnels

\* tunnel_file.unlink()
CtUnlink(i) ==
    LET f == inv[i] IN
    /\ f.pc = "ct_unlink"
    /\ IF Exists(f.port)
         THEN /\ registry' = FileUnlink(registry, f.port)
              /\ owner' = [owner EXCEPT ![f.port] = 0]
              /\ passed' = [passed EXCEPT ![f.port] = NoData]
              /\ tunnels' = MarkClosed(f.port)
              /\ SetFrame(i, Finish(f))
         ELSE /\ SetFrame(i, Raise(f, "FileNotFoundError"))
              /\ UNCHANGED <<registry, owner, passed, tunnels>>
    /\ UNCHANGED <<sessions, procs, nspawn>>

----------------------------------------------------------------------------
(* backend_sessions.py: close_all_tunnels *)

StartCloseAllTunnels(i) ==
    /\ inv[i].pc = "idle"
    /\ SetFrame(i, NewFrame("close_all_tunnels", "ca_glob"))
    /\ UNCHANGED <<sessions, procs, registry, owner, passed, tunnels, nspawn>>

CaGlob(i) ==
    LET f == inv[i] IN
    /\ f.pc = "ca_glob"
    /\ IF Glob = {} THEN SetFrame(i, Finish(f))
                    ELSE SetFrame(i, [f EXCEPT !.files = Glob, !.pc = "ca_open"])
    /\ UNCHANGED <<sessions, procs, registry, owner, passed, tunnels, nspawn>>

CaOpen(i) ==
    LET f == inv[i] IN
    /\ f.pc = "ca_open"
    /\ IF f.files = {}
         THEN SetFrame(i, Finish(f))
         ELSE \E p \in f.files :
                IF Exists(p) /\ JsonValid(registry[p])
                  THEN SetFrame(i, [f EXCEPT !.files = f.files \ {p}, !.cur = p,
                                             !.data = JsonLoad(registry[p]),
                                             !.seen = f.seen \cup {p},
                                             !.pc = "ca_kill"])
                  ELSE SetFrame(i, Raise([f EXCEPT !.files = f.files \ {p}, !.cur = p],
                                         OpenError(p)))
    /\ UNCHANGED <<sessions, procs, registry, owner, passed, tunnels, nspawn>>

\* (a variant that also asks the API to delete the session of the record)
CaKillFailedDeletes(f) == Logged([f EXCEPT !.pc = "ca_unlink"], "delete", "ok")

\* except OSError: pass
CaKillFailed(f) == [f EXCEPT !.pc = "ca_unlink"]

\* os.kill(data["pid"], signal.SIGTERM)
CaKill(i) ==
    LET f == inv[i]
        x == f.data.pid
    IN
    /\ f.pc = "ca_kill"
    /\ IF KillSucceeds(x)
         THEN /\ procs' = [procs EXCEPT ![x] = FreeProc]
              /\ SetFrame(i, [f EXCEPT !.sig = f.sig \cup {Signalled(x)},
                                       !.pc = "ca_unlink"])
         ELSE /\ SetFrame(i, CaKillFailed(f))
              /\ UNCHANGED procs
    /\ UNCHANGED <<sessions, registry, owner, passed, tunnels, nspawn>>

CaUnlink(i) ==
    LET f == inv[i] IN
    /\ f.pc = "ca_unlink"
    /\ IF Exists(f.cur)
         THEN /\ registry' = FileUnlink(registry, f.cur)
              /\ owner' = [owner EXCEPT ![f.cur] = 0]
              /\ passed' = [passed EXCEPT ![f.cur] = NoData]
              /\ tunnels' = MarkClosed(f.cur)
              /\ SetFrame(i, [f EXCEPT !.pc = "ca_open"])
         ELSE /\ SetFrame(i, Raise(f, "FileNotFoundError"))
              /\ UNCHANGED <<registry, owner, passed, tunnels>>
    /\ UNCHANGED <<sessions, procs, nspawn>>

----------------------------------------------------------------------------
(* bastion.py: delete_session *)

StartDeleteSession(i, sid) ==
    /\ inv[i].pc = "idle"
    /\ SetFrame(i, [NewFrame("delete_session", "ds_confirm") EXCEPT !.sid = sid])
    /\ UNCHANGED <<sessions, procs, registry, owner, passed, tunnels, nspawn>>

\* what the user may type at the prompt
Responses == {"y", "yes", "Y", "YES", "n", "N", ""}

\* str.lower() on the answers
Lower(response) ==
    CASE response = "Y" -> "y"
      [] response = "YES" -> "yes"
      [] response = "N" -> "n"
      [] OTHER -> response

\* (a variant that takes every answer for a yes)
ConfirmActionAlways(response) == TRUE

\* common.py confirm_action: input() and the test of the answer
ConfirmAction(response) == Lower(response) \in {"y", "yes"}

\* log_warn, then the prompt: anything but y/yes cancels and returns
DsConfirm(i) ==
    LET f == inv[i] IN
    /\ f.pc = "ds_confirm"
    /\ \E response \in Responses :
         LET g == Logged(f, "confirm", response) IN
         IF ConfirmAction(response)
           THEN SetFrame(i, [g EXCEPT !.confirmed = TRUE, !.state = sessions[f.sid],
                                      !.pc = "ds_delete"])
           ELSE SetFrame(i, Finish(g))
    /\ UNCHANGED <<sessions, procs, registry, owner, passed, tunnels, nspawn>>

\* the API's answer to a delete of a session in lifecycle state st: a session
\* it does not know is an error; one that is being or has been deleted may be
\* accepted again or refused (409/404)
DeleteAccepted(st) == st \in {"CREATING", "ACTIVE", "FAILED"}

\* run_oci_command([... "delete" ... "--force"], output_json=False), then
\* log_success; the CalledProcessError of a refused request is not caught
DsDelete(i) ==
    LET f == inv[i] IN
    /\ f.pc = "ds_delete"
    /\ \E o \in RunOciCommandNoJson(sessions[f.sid] # "NONE") :
         LET g == Requested(f, "delete", o) IN
         CASE o.result = "none" ->
                /\ sessions' = [sessions EXCEPT ![f.sid] =
                       IF DeleteAccepted(sessions[f.sid]) THEN "DELETING" ELSE @]
                /\ SetFrame(i, Finish(g))
           [] o.result = "raise" ->
                /\ UNCHANGED sessions
                /\ SetFrame(i, Raise(g, "CalledProcessError"))
    /\ UNCHANGED <<procs, registry, owner, passed, tunnels, nspawn>>

----------------------------------------------------------------------------
(* bastion.py: connect_session *)

\* ssh-metadata.command of a session: a template with placeholders, here as
\* its words; a session may carry none
Template == <<"ssh", "-i", "<privateKey>", "-N", "-L", "<localPort>", ":10.0.1.5:5432",
              "ocid1.bastionsession@host.bastion.example">>

\* command.replace(old, new)
Replace(command, old, new) ==
    [k \in 1..Len(command) |-> IF command[k] = old THEN new ELSE command[k]]

StartConnectSession(i, sid, port) ==
    /\ inv[i].pc = "idle"
    /\ SetFrame(i, [NewFrame("connect_session", "cs_get_session") EXCEPT
                        !.sid = sid, !.port = port])
    /\ UNCHANGED <<sessions, procs, registry, owner, passed, tunnels, nspawn>>

\* (a variant that does not look at the lifecycle state)
CsActiveAny(st) == TRUE

\* session["lifecycle-state"] != "ACTIVE": log_error and sys.exit(1)
CsActive(st) == st = "ACTIVE"

\* get-session; no data: sys.exit(1); not ACTIVE: sys.exit(1); no command in
\* the session: log_error, and the function returns
CsGetSession(i) ==
    LET f == inv[i] IN
    /\ f.pc = "cs_get_session"
    /\ \E o \in RunOciCommand(sessions[f.sid] # "NONE") :
         LET g == Requested(f, "get-session", o) IN
         CASE o.result = "data" ->
                \E command \in {<<>>, Template} :
                    LET h == [g EXCEPT !.state = sessions[f.sid]] IN
                    IF ~CsActive(sessions[f.sid])
                      THEN SetFrame(i, Abort(h))
                      ELSE IF command # <<>>
                        THEN SetFrame(i, [h EXCEPT
                                 !.command = Replace(Replace(command, "<localPort>", f.port),
                                                     "<privateKey>", "~/.ssh/id_rsa"),
                                 !.pc = "cs_system"])
                        ELSE SetFrame(i, Finish(h))
           [] o.result = "none" -> SetFrame(i, Abort(g))
           [] o.result = "raise" -> SetFrame(i, Raise(g, "CalledProcessError"))
    /\ UNCHANGED <<sessions, procs, registry, owner, passed, tunnels, nspawn>>

\* print("Running: ..."), os.system(command); its status is not looked at
CsSystem(i) ==
    LET f == inv[i] IN
    /\ f.pc = "cs_system"
    /\ SetFrame(i, Finish(Logged(f, "client", "ok")))
    /\ UNCHANGED <<sessions, procs, registry, owner, passed, tunnels, nspawn>>

----------------------------------------------------------------------------
(* jump_host.py: tunnel *)

StartJumpTunnel(i, sid, port, target) ==
    /\ inv[i].pc = "idle"
    /\ SetFrame(i, [NewFrame("jh_tunnel", "jt_get_session") EXCEPT
                        !.sid = sid, !.port = port, !.target = target, !.bg = FALSE])
    /\ UNCHANGED <<sessions, procs, registry, owner, passed, tunnels, nspawn>>

\* get-session; no data: log_error and sys.exit(1)
JtGetSession(i) ==
    LET f == inv[i] IN
    /\ f.pc = "jt_get_session"
    /\ \E o \in RunOciCommand(sessions[f.sid] # "NONE") :
         LET g == Requested(f, "get-session", o) IN
         CASE o.result = "data" -> SetFrame(i, [g EXCEPT !.state = sessions[f.sid],
                                                         !.pc = "jt_get_bastion"])
           [] o.result = "none" -> SetFrame(i, Abort(g))
           [] o.result = "raise" -> SetFrame(i, Raise(g, "CalledProcessError"))
    /\ UNCHANGED <<sessions, procs, registry, owner, passed, tunnels, nspawn>>

JtGetBastion(i) ==
    LET f == inv[i] IN
    /\ f.pc = "jt_get_bastion"
    /\ \E o \in RunOciCommand(TRUE) :
         LET g == Requested(f, "get-bastion", o) IN
         CASE o.result = "data" -> SetFrame(i, [g EXCEPT !.endpoint = BastionEndpoint,
                                                         !.pc = "jt_exec"])
           [] o.result = "none" -> SetFrame(i, Abort(g))
           [] o.result = "raise" -> SetFrame(i, Raise(g, "CalledProcessError"))
    /\ UNCHANGED <<sessions, procs, registry, owner, passed, tunnels, nspawn>>

\* os.execvp("ssh", [...])
JtExec(i) ==
    LET f == inv[i] IN
    /\ f.pc = "jt_exec"
    /\ \/ SetFrame(i, Raise(Logged(f, "exec", "fail"), "OSError"))
       \/ SetFrame(i, Execd(f))
    /\ UNCHANGED <<sessions, procs, registry, owner, passed, tunnels, nspawn>>

----------------------------------------------------------------------------
(* jump_host.py: connect *)

\* create-managed-ssh with --wait-for-state ACTIVE: the request and the wait
\* are those of CreatePortForwardSession and WaitForState
StartJumpConnect(i) ==
    /\ inv[i].pc = "idle"
    /\ SetFrame(i, NewFrame("jh_connect", "create"))
    /\ UNCHANGED <<sessions, procs, registry, owner, passed, tunnels, nspawn>>

\* the session came back: os.system(command) of its ssh-metadata, or, with no
\* command in it, the session id is printed; then the command ends
JcSystem(i) ==
    LET f == inv[i] IN
    /\ f.pc = "jc_system"
    /\ SetFrame(i, Finish(Logged(f, "client", "ok")))
    /\ UNCHANGED <<sessions, procs, registry, owner, passed, tunnels, nspawn>>

----------------------------------------------------------------------------
(* Specifications *)

\* the commands that write, read and clean the tunnel directory
LaunchRegistry(i) ==
    \/ \E port \in Ports, target \in Targets : StartQuickTunnel(i, port, target)
    \/ \E port \in Ports, target \in Targets : StartConnectDb(i, port, target)
    \/ \E sid \in SessionIds, port \in Ports, target \in Targets :
          StartStartTunnel(i, sid, port, target, TRUE)
    \/ StartListTunnels(i)
    \/ \E port \in Ports : StartCloseTunnel(i, port)
    \/ StartCloseAllTunnels(i)

\* the commands that only talk to the API or replace their process
LaunchOther(i) ==
    \/ \E sid \in SessionIds, port \in Ports, target \in Targets :
          StartStartTunnel(i, sid, port, target, FALSE)
    \/ \E sid \in SessionIds : StartDeleteSession(i, sid)
    \/ \E sid \in SessionIds, port \in Ports, target \in Targets :
          StartJumpTunnel(i, sid, port, target)
    \/ StartJumpConnect(i)
    \/ \E sid \in SessionIds, port \in Ports : StartConnectSession(i, sid, port)

StepRegistry(i) ==
    \/ CreatePortForwardSession(i) \/ WaitForState(i)
    \/ StGetSession(i) \/ StGetBastion(i) \/ StPopen(i)
    \/ StOpen(i) \/ StDump(i)
    \/ CdSleep(i) \/ CdClient(i)
    \/ LtGlob(i) \/ LtOpen(i) \/ LtProbe(i) \/ LtUnlink(i)
    \/ CtExists(i) \/ CtOpen(i) \/ CtKill(i) \/ CtUnlink(i)
    \/ CaGlob(i) \/ CaOpen(i) \/ CaKill(i) \/ CaUnlink(i)
    \/ Exit(i)

StepOther(i) ==
    \/ StExec(i)
    \/ DsConfirm(i) \/ DsDelete(i)
    \/ JtGetSession(i) \/ JtGetBastion(i) \/ JtExec(i)
    \/ JcSystem(i)
    \/ CsGetSession(i) \/ CsSystem(i)
    \/ ExecEnds(i)

\* Spec: the commands run one after the other, each to its end, while
\* processes and sessions come and go underneath them.
Next ==
    \/ \E i \in Invs : AllIdle(i) /\ (LaunchRegistry(i) \/ LaunchOther(i))
    \/ \E i \in Invs : StepRegistry(i) \/ StepOther(i)
    \/ \E x \in Pids : ProcessDies(x)
    \/ \E x \in Pids : PidReused(x)
    \/ \E s \in SessionIds : SessionAdvances(s)

Spec == Init /\ [][Next]_vars

\* SpecOwn: as Spec, but the only processes are the tool's own tunnels: no
\* pid is ever given to an unrelated process.
NextOwn ==
    \/ \E i \in Invs : AllIdle(i) /\ (LaunchRegistry(i) \/ LaunchOther(i))
    \/ \E i \in Invs : StepRegistry(i) \/ StepOther(i)
    \/ \E x \in Pids : ProcessDies(x)
    \/ \E s \in SessionIds : SessionAdvances(s)

SpecOwn == Init /\ [][NextOwn]_vars

\* SpecInt: as Spec, and the user may interrupt the running command once.
NextInt ==
    \/ \E i \in Invs : AllIdle(i) /\ (LaunchRegistry(i) \/ LaunchOther(i))
    \/ \E i \in Invs : StepRegistry(i) \/ StepOther(i)
    \/ \E i \in Invs : Interrupt(i)
    \/ \E x \in Pids : ProcessDies(x)
    \/ \E x \in Pids : PidReused(x)
    \/ \E s \in SessionIds : SessionAdvances(s)

SpecInt == Init /\ [][NextInt]_vars

\* SpecCreate: the commands that create a session, one after the other.  A
\* command that can take a step takes one in the end (its process is
\* scheduled); nothing is assumed of the Bastion Control API: a session may
\* stay CREATING for ever.
LaunchCreate(i) ==
    \/ \E port \in Ports, target \in Targets : StartQuickTunnel(i, port, target)
    \/ \E port \in Ports, target \in Targets : StartConnectDb(i, port, target)
    \/ StartJumpConnect(i)

StepCreate(i) ==
    \/ CreatePortForwardSession(i) \/ WaitForState(i)
    \/ StGetSession(i) \/ StGetBastion(i) \/ StPopen(i)
    \/ StOpen(i) \/ StDump(i)
    \/ CdSleep(i) \/ CdClient(i)
    \/ JcSystem(i)
    \/ Exit(i)

NextCreate ==
    \/ \E i \in Invs : AllIdle(i) /\ LaunchCreate(i)
    \/ \E i \in Invs : StepCreate(i)
    \/ \E x \in Pids : ProcessDies(x)
    \/ \E s \in SessionIds : SessionAdvances(s)

SpecCreate == Init /\ [][NextCreate]_vars /\ \A i \in Invs : WF_vars(StepCreate(i))

\* SpecConc: the registry commands of separate invocations overlap, their
\* system calls interleaved in any order.  It starts where an earlier
\* invocation has left an ACTIVE session and no tunnel.
InitConc ==
    /\ sessions = [s \in SessionIds |-> "ACTIVE"]
    /\ procs = [x \in Pids |-> FreeProc]
    /\ registry = <<>>
    /\ owner = [p \in Ports |-> 0]
    /\ passed = [p \in Ports |-> NoData]
    /\ tunnels = [n \in Spawns |-> "none"]
    /\ nspawn = 0
    /\ inv = [i \in Invs |-> IdleFrame]

LaunchConc(i) ==
    \/ \E sid \in SessionIds, port \in Ports, target \in Targets :
          StartStartTunnel(i, sid, port, target, TRUE)
    \/ StartListTunnels(i)
    \/ \E port \in Ports : StartCloseTunnel(i, port)
    \/ StartCloseAllTunnels(i)

StepConc(i) ==
    \/ StGetSession(i) \/ StGetBastion(i) \/ StPopen(i)
    \/ StOpen(i) \/ StDump(i)
    \/ LtGlob(i) \/ LtOpen(i) \/ LtProbe(i) \/ LtUnlink(i)
    \/ CtExists(i) \/ CtOpen(i) \/ CtKill(i) \/ CtUnlink(i)
    \/ CaGlob(i) \/ CaOpen(i) \/ CaKill(i) \/ CaUnlink(i)
    \/ Exit(i)

NextConc ==
    \/ \E i \in Invs : FirstIdle(i) /\ LaunchConc(i)
    \/ \E i \in Invs : StepConc(i)
    \/ \E x \in Pids : ProcessDies(x)

SpecConc == InitConc /\ [][NextConc]_vars

----------------------------------------------------------------------------
(* Properties *)

ListDone(i) == inv[i].cmd = "list_tunnels" /\ inv[i].pc = "done"
CloseDone(i) == inv[i].cmd = "close_tunnel" /\ inv[i].pc = "done"
CloseAllDone(i) == inv[i].cmd = "close_all_tunnels" /\ inv[i].pc = "done"
StartDone(i) == inv[i].cmd \in {"start_tunnel", "quick_tunnel"} /\ inv[i].pc = "done"

\* C1: every tunnel that was registered and never closed is reported by a
\* completed list_tunnels if and only if its own process was alive when
\* list_tunnels probed it; a registered, unclosed tunnel that list_tunnels
\* did not even probe must not be alive.  (Checked where the only processes
\* are the tool's tunnels, SpecOwn.)
C1_ListReportsIffOwnerAlive ==
    \A i \in Invs :
        (ListDone(i) /\ inv[i].exit = "ok") =>
            \A n \in Spawns :
                tunnels[n] = "registered" =>
                    LET notes == {e \in inv[i].seen : e.spawn = n} IN
                    /\ \A e \in notes : (e.status = "RUNNING") <=> e.alive
                    /\ (notes = {}) => ~TunnelAlive(n)

\* C2: when list_tunnels has completed, every record whose pid did not
\* answer the probe has no file left and was not printed; and if no probed
\* pid answered, nothing was printed and the directory holds no record file.
C2_StaleRecordsPurged ==
    \A i \in Invs :
        ListDone(i) =>
            /\ \A e \in inv[i].seen :
                  ~e.probe => /\ ~Exists(e.port)
                              /\ \A l \in inv[i].out : l[2] # e.port
            /\ (\A e \in inv[i].seen : ~e.probe) => (inv[i].out = {} /\ Glob = {})

\* a list over two records whose processes had both been killed
C2_Witness ==
    \E i \in Invs :
        /\ ListDone(i)
        /\ Cardinality(inv[i].seen) = 2
        /\ \A e \in inv[i].seen : ~e.probe
        /\ inv[i].out = {}
        /\ Glob = {}

\* C3: start_tunnel never gets as far as writing the record of a local port
\* whose present record belongs to a tunnel process that is alive (such a
\* registration is rejected, the record is not overwritten).
C3_LiveRecordNotOverwritten ==
    \A i \in Invs : inv[i].pc = "open" => ~OwnerAlive(inv[i].port)

\* C4: close_tunnel for a port without a record returns normally, has sent
\* no signal and has left the tunnel directory as it found it.
C4_CloseMissingIsNoOp ==
    \A i \in Invs :
        (CloseDone(i) /\ ~inv[i].found) =>
            /\ inv[i].exit = "ok"
            /\ inv[i].sig = {}
            /\ registry = inv[i].pre

\* close_tunnel of a port without a record while another port has one
C4_Witness ==
    \E i \in Invs :
        /\ CloseDone(i)
        /\ ~inv[i].found
        /\ Glob # {}
        /\ \E x \in Pids : procs[x].kind = "tunnel"

\* C5: close_tunnel for a port that has a record ends with the record
\* removed and exit status 0, whether the SIGTERM was delivered or not.
C5_CloseRemovesRecord ==
    \A i \in Invs :
        (CloseDone(i) /\ inv[i].found) =>
            /\ ~Exists(inv[i].port)
            /\ inv[i].exit = "ok"

\* close_tunnel of a record whose process was already dead: no signal delivered
C5_Witness ==
    \E i \in Invs :
        /\ CloseDone(i)
        /\ inv[i].found
        /\ inv[i].sig = {}
        /\ inv[i].data.pid # NoPid
        /\ ~Exists(inv[i].port)

\* C6: the record of a local port reads back as the values passed at the
\* registration: when start_tunnel returns a pid the file of its port
\* decodes to exactly {pid, session id, local port, target host, target
\* port, bastion endpoint} of that call; what list_tunnels, close_tunnel and
\* close_all_tunnels load is what the last registration of the port passed;
\* and every line list_tunnels prints carries the port, host and target port
\* of a record then registered.
C6_RecordRoundTrip ==
    /\ \A i \in Invs :
          (StartDone(i) /\ inv[i].ret # NoPid) =>
              /\ Exists(inv[i].port)
              /\ JsonValid(registry[inv[i].port])
              /\ LET d == JsonLoad(registry[inv[i].port]) IN
                 /\ DOMAIN d = {Keys[k] : k \in 1..Len(Keys)}
                 /\ d.pid = inv[i].pid
                 /\ d.pid = inv[i].ret
                 /\ d.session_id = inv[i].sid
                 /\ d.local_port = inv[i].port
                 /\ d.target_host = inv[i].target[1]
                 /\ d.target_port = inv[i].target[2]
                 /\ d.bastion_endpoint = inv[i].endpoint
    /\ \A i \in Invs :
          inv[i].pc \in {"lt_probe", "ct_kill", "ca_kill"} =>
              inv[i].data = passed[inv[i].cur]
    /\ \A i \in Invs :
          inv[i].pc = "lt_open" =>
              \A l \in inv[i].out :
                  \E q \in Ports, t \in Targets, x \in Pids :
                      l = <<x, q, t[1], t[2], "RUNNING">>

\* the listing of one detached tunnel to 10.0.1.5:5432 on local port 5432
C6_Witness ==
    \E i \in Invs :
        /\ ListDone(i)
        /\ Cardinality(inv[i].out) = 1
        /\ \E x \in Pids : inv[i].out = {<<x, "5432", "10.0.1.5", "5432", "RUNNING">>}

\* C7: the launcher has spawned (detached) or exec'ed (attached) a forwarding
\* process only for a session that get-session returned as ACTIVE.
C7_OnlyActiveSessionsLaunched ==
    \A i \in Invs :
        inv[i].pc \in {"open", "dump", "execd"} => inv[i].state = "ACTIVE"

\* C8: when start_tunnel has returned and its forwarding process could not
\* be spawned or exited at once, the registry holds no record written by
\* that call.
C8_NoRecordForFailedStart ==
    \A i \in Invs :
        (StartDone(i) /\ ~inv[i].started) =>
            ~(Exists(inv[i].port) /\ inv[i].spawn # 0 /\ owner[inv[i].port] = inv[i].spawn)

\* C9: when close_all_tunnels ends, normally or on a record file that
\* another invocation had removed in the meantime, it has attempted every
\* record file it enumerated: none is left unattempted.
C9_CloseAllAttemptsEveryRecord ==
    \A i \in Invs :
        (CloseAllDone(i) /\ inv[i].err \in {"", "FileNotFoundError"}) =>
            inv[i].files = {}

\* C10: a confirmed delete_session of a session that is already deleted, or
\* that the API does not know, ends with exit status 0.
C10_DeleteIdempotent ==
    \A i \in Invs :
        (/\ inv[i].cmd = "delete_session"
         /\ inv[i].pc = "done"
         /\ inv[i].confirmed
         /\ inv[i].state \in {"NONE", "DELETING", "DELETED"})
        => inv[i].exit = "ok"

OrchestratorDone(i) == inv[i].cmd \in Orchestrators /\ inv[i].pc = "done"

\* C11: when quick_tunnel or a connect_* helper has ended without a session
\* id (the create request raised, the wait for ACTIVE ran out, or
\* create_port_forward_session returned None), its exit status is non-zero,
\* it has spawned no forwarding process, opened no record file, started no
\* client, and the tunnel directory is as the command found it.
C11_NoLaunchWithoutSession ==
    \A i \in Invs :
        (OrchestratorDone(i) /\ inv[i].sid = "") =>
            /\ inv[i].exit = "error"
            /\ inv[i].spawn = 0
            /\ inv[i].pid = NoPid
            /\ Entries(inv[i], "Popen") = {}
            /\ Entries(inv[i], "open") = {}
            /\ Entries(inv[i], "client") = {}
            /\ registry = inv[i].pre

\* a connect_* helper whose session was created but was still CREATING when
\* the wait ran out
C11_Witness ==
    \E i \in Invs :
        /\ OrchestratorDone(i)
        /\ inv[i].cmd = "connect_db"
        /\ inv[i].sid = ""
        /\ inv[i].created # ""
        /\ sessions[inv[i].created] = "CREATING"
        /\ Entries(inv[i], "wait") # {}
        /\ inv[i].exit = "error"

\* C12: when quick_tunnel or a connect_* helper has ended after its tunnel
\* launch step failed (a session id was obtained, start_tunnel gave no
\* pid), its exit status is non-zero.
C12_LaunchFailurePropagates ==
    \A i \in Invs :
        (OrchestratorDone(i) /\ inv[i].sid # "" /\ inv[i].ret = NoPid) =>
            inv[i].exit = "error"

\* C13: quick_tunnel and the connect_* helpers never send a delete request,
\* and the session one of them has created is not deleted or put into
\* deletion while the command runs or when it has ended, whatever step
\* failed: it stays as the API holds it (CREATING, ACTIVE, FAILED, or DELETED
\* by its time-to-live).
C13_NoAutomaticDelete ==
    \A i \in Invs :
        inv[i].cmd \in Orchestrators =>
            /\ Entries(inv[i], "delete") = {}
            /\ inv[i].created # "" => sessions[inv[i].created] \notin {"NONE", "DELETING"}

\* a connect_* helper that has ended with exit status 1 because start_tunnel
\* returned None, its session still ACTIVE
C13_Witness ==
    \E i \in Invs :
        /\ OrchestratorDone(i)
        /\ inv[i].cmd = "connect_db"
        /\ inv[i].created # ""
        /\ inv[i].sid = inv[i].created
        /\ inv[i].ret = NoPid
        /\ inv[i].exit = "error"
        /\ sessions[inv[i].created] = "ACTIVE"

RegistryReaders == {"list_tunnels", "close_tunnel", "close_all_tunnels"}

\* C14: registrations for different local ports that overlap do not disturb
\* each other.  Every step by which start_tunnel opens or writes the record
\* file of its port p leaves the file of every other port as it was, present
\* or not, text unchanged; and when start_tunnel has returned a pid, the
\* record of its port, as long as it is the one this call wrote, decodes to
\* exactly the values of this call.
C14_DifferentPortsIndependent ==
    /\ [][\A i \in Invs :
            (inv[i].pc \in {"open", "dump"} /\ inv'[i] # inv[i]) =>
                \A q \in Ports \ {inv[i].port} :
                    /\ (q \in DOMAIN registry) <=> (q \in DOMAIN registry')
                    /\ (q \in DOMAIN registry) => registry'[q] = registry[q]]_vars
    /\ [](\A i \in Invs :
            (/\ StartDone(i)
             /\ inv[i].ret # NoPid
             /\ owner[inv[i].port] = inv[i].spawn) =>
                /\ Exists(inv[i].port)
                /\ registry[inv[i].port] =
                      JsonDump([pid |-> inv[i].pid, session_id |-> inv[i].sid,
                                local_port |-> inv[i].port,
                                target_host |-> inv[i].target[1],
                                target_port |-> inv[i].target[2],
                                bastion_endpoint |-> inv[i].endpoint]))

\* two overlapping registrations for different ports: the one that spawned
\* its process later has already returned, its record complete, while the
\* other has opened its file and not yet written it
C14_Witness ==
    \E i, j \in Invs :
        /\ StartDone(i)
        /\ inv[i].ret # NoPid
        /\ owner[inv[i].port] = inv[i].spawn
        /\ inv[j].cmd = "start_tunnel"
        /\ inv[j].pc = "dump"
        /\ inv[j].port # inv[i].port
        /\ inv[j].spawn < inv[i].spawn
        /\ registry[inv[j].port] = <<>>

\* C15: no invocation of list_tunnels, close_tunnel or close_all_tunnels
\* ends with an error because a record file it had enumerated or found was
\* removed by another invocation before it opened or unlinked it.
C15_MissingFileReconciled ==
    \A i \in Invs :
        (inv[i].cmd \in RegistryReaders /\ inv[i].pc = "done") =>
            ~(inv[i].exit = "error" /\ inv[i].err = "FileNotFoundError")

\* C16: no invocation of list_tunnels, close_tunnel or close_all_tunnels
\* reads a record file that a registration has opened and not yet written:
\* none ends on a file that is there but holds no complete JSON document.
C16_RegistrationAtomic ==
    \A i \in Invs :
        inv[i].cmd \in RegistryReaders => inv[i].err # "JSONDecodeError"

\* C17: a destructive step is taken only after the user has confirmed it (or
\* an override flag was given): delete_session is about to send the delete
\* request, close_tunnel or close_all_tunnels is about to signal a process
\* or to unlink a record, only in a command that has been confirmed.
C17_DestructiveNeedsConfirmation ==
    \A i \in Invs :
        inv[i].pc \in {"ds_delete", "ct_kill", "ct_unlink", "ca_kill", "ca_unlink"} =>
            inv[i].confirmed

\* C18: an interrupt of a command that has spawned a detached tunnel does not
\* end the tunnel process: if it was running before the interrupt it is
\* running after it.
C18_InterruptSparesTunnel ==
    [][\A i \in Invs :
          (/\ Entries(inv[i], "SIGINT") = {}
           /\ Entries(inv'[i], "SIGINT") # {}
           /\ inv[i].spawn # 0
           /\ TunnelAlive(inv[i].spawn)) =>
              TunnelAlive(inv[i].spawn)']_vars

CreatorDone(i) ==
    inv[i].cmd \in Orchestrators \cup {"jh_connect"} /\ inv[i].pc = "done"

ApiRequests == {"create", "wait", "get-session", "get-bastion", "delete"}

\* C20: within one invocation no request to the Bastion Control API is made
\* twice, and a request that the API refused is the last thing the command
\* did: the command has ended on the CalledProcessError with a non-zero exit
\* status and without a result.
C20_NoRetryErrorsSurfaced ==
    \A i \in Invs :
        LET log == inv[i].log IN
        /\ \A a, b \in 1..Len(log) :
              (a # b /\ log[a][1] \in ApiRequests) => log[a][1] # log[b][1]
        /\ \A k \in 1..Len(log) :
              (log[k][1] \in ApiRequests /\ log[k][2] = "fail") =>
                  /\ k = Len(log)
                  /\ inv[i].pc = "done"
                  /\ inv[i].exit = "error"
                  /\ inv[i].err = "CalledProcessError"
                  /\ inv[i].ret = NoPid

\* quick_tunnel whose third request, get-bastion, was refused
C20_Witness ==
    \E i \in Invs :
        /\ inv[i].cmd = "quick_tunnel"
        /\ inv[i].log = << <<"create", "ok">>, <<"get-session", "ok">>,
                           <<"get-bastion", "fail">> >>
        /\ inv[i].exit = "error"

\* the steps of an orchestrator helper in the order of its statements
StepOrder == <<"create", "get-session", "get-bastion", "Popen", "open", "sleep", "client">>

\* C21: within one invocation of quick_tunnel or a connect_* helper the steps
\* come strictly one after the other and each starts only when the one
\* before has succeeded: what the command has done so far is a prefix of
\* create session, get-session, get-bastion, spawn, open the record, settle
\* delay, client, and only its last step may have failed (a wait that ran
\* out takes the place of the second); the lookups start with the id of the
\* created session, the record is opened with the pid of the spawned
\* process, and the settle delay starts when the record has been written and
\* the pid returned.
C21_StepsSequential ==
    \A i \in Invs :
        inv[i].cmd \in Orchestrators =>
            LET f == inv[i]
                log == f.log
            IN
            /\ Len(log) <= Len(StepOrder)
            /\ \A k \in 1..Len(log) :
                  /\ \/ log[k][1] = StepOrder[k]
                     \/ k = 2 /\ log[k] = <<"wait", "fail">>
                  /\ k < Len(log) => log[k][2] = "ok"
            /\ Entries(f, "get-session") # {} => (f.sid # "" /\ f.sid = f.created)
            /\ Entries(f, "open") # {} => (f.spawn # 0 /\ f.pid # NoPid)
            /\ Entries(f, "sleep") # {} => (f.ret = f.pid /\ f.ret # NoPid)
            /\ f.pc \in {"sleep", "client"} => Entries(f, "open") # {}

\* a connect_* helper that has gone through all its steps
C21_Witness ==
    \E i \in Invs :
        /\ inv[i].cmd = "connect_db"
        /\ inv[i].pc = "done"
        /\ inv[i].exit = "ok"
        /\ Len(inv[i].log) = Len(StepOrder)
        /\ \A k \in 1..Len(StepOrder) : inv[i].log[k] = <<StepOrder[k], "ok">>

\* C22: a record goes only by an explicit registry operation and comes only
\* by a registration.  In every step in which the file of a port p
\* disappears, the step is the unlink of list_tunnels for p after a probe
\* that found the recorded pid dead, the unlink of close_tunnel p, or the
\* unlink of close_all_tunnels for p; in every step in which the file of p
\* appears or its text changes, the step is the open or the write of a
\* start_tunnel for p; and a step in which no command moves (a process
\* dies, a pid is reused, a command's process has exited) leaves the
\* directory as it is.
C22_RecordPersists ==
    [][/\ \A p \in Ports :
            (p \in DOMAIN registry /\ p \notin DOMAIN registry') =>
                \E i \in Invs :
                    /\ inv'[i] # inv[i]
                    /\ \/ /\ inv[i].pc = "lt_unlink" /\ inv[i].cur = p
                          /\ \E e \in inv[i].seen : e.port = p /\ ~e.probe
                       \/ inv[i].pc = "ct_unlink" /\ inv[i].port = p
                       \/ inv[i].pc = "ca_unlink" /\ inv[i].cur = p
       /\ \A p \in Ports :
            (\/ p \notin DOMAIN registry /\ p \in DOMAIN registry'
             \/ p \in DOMAIN registry /\ p \in DOMAIN registry' /\ registry'[p] # registry[p]) =>
                \E i \in Invs :
                    /\ inv'[i] # inv[i]
                    /\ inv[i].pc \in {"open", "dump"}
                    /\ inv[i].port = p
       /\ (\A i \in Invs : inv'[i] = inv[i] \/ inv[i].pc = "done") => registry' = registry
      ]_vars

\* every command has exited, the tunnel process has died, and the record it
\* was registered with is still in the directory
C22_Witness ==
    \E p \in Ports :
        /\ \A i \in Invs : inv[i].pc = "idle"
        /\ Exists(p)
        /\ JsonValid(registry[p])
        /\ owner[p] # 0
        /\ tunnels[owner[p]] = "registered"
        /\ ~TunnelAlive(owner[p])
        /\ ~KillSucceeds(JsonLoad(registry[p]).pid)

\* C23: in attached mode a successful exec is the last thing the command
\* does.  A command whose exec succeeded is the forwarding process from then
\* on (it never reaches a return or an exit status of its own), and the only
\* step left to it is the end of that process, which changes nothing in the
\* tunnel directory, the sessions or the other processes.
C23_ExecNeverReturns ==
    /\ [](\A i \in Invs :
            (\E k \in Entries(inv[i], "exec") : inv[i].log[k][2] = "ok") =>
                /\ inv[i].pc = "execd"
                /\ inv[i].exit = "none"
                /\ inv[i].log[Len(inv[i].log)] = <<"exec", "ok">>)
    /\ [][\A i \in Invs :
            (inv[i].pc = "execd" /\ inv'[i] # inv[i]) =>
                /\ inv'[i] = IdleFrame
                /\ registry' = registry
                /\ sessions' = sessions
                /\ procs' = procs]_vars

\* both attached launchers after their exec: start_tunnel with
\* background=False, or jump_host.py tunnel
C23_Witness ==
    \E i \in Invs :
        /\ inv[i].pc = "execd"
        /\ inv[i].cmd \in {"start_tunnel", "jh_tunnel"}
        /\ ~inv[i].bg
        /\ inv[i].endpoint = BastionEndpoint

\* C24: connect_session runs a connection command only for a session that
\* get-session returned as ACTIVE and that carries a command; when
\* get-session gave no data, or a lifecycle state other than ACTIVE, the
\* command has ended with a non-zero exit status and without running one.
C24_ConnectSessionFailsFast ==
    \A i \in Invs :
        inv[i].cmd = "connect_session" =>
            /\ (inv[i].pc = "cs_system" \/ Entries(inv[i], "client") # {}) =>
                  /\ inv[i].state = "ACTIVE"
                  /\ inv[i].command # <<>>
            /\ (inv[i].pc = "done" /\ inv[i].state # "ACTIVE") =>
                  /\ inv[i].exit = "error"
                  /\ Entries(inv[i], "client") = {}
                  /\ inv[i].command = <<>>

\* connect_session for a session that has expired: get-session returned it
\* as DELETED
C24_Witness ==
    \E i \in Invs :
        /\ inv[i].cmd = "connect_session"
        /\ inv[i].pc = "done"
        /\ inv[i].state = "DELETED"
        /\ inv[i].exit = "error"
        /\ inv[i].log = << <<"get-session", "ok">> >>

\* C25: a SIGTERM that close_tunnel or close_all_tunnels delivers reaches the
\* tunnel process that the record being closed was written for, and no other
\* process: in every step in which a close signals a process, that process
\* is the forwarding process spawned by the start_tunnel that wrote the
\* record.
C25_SignalOnlyOwnTunnel ==
    [][\A i \in Invs :
          /\ (inv[i].pc = "ct_kill" /\ inv'[i].sig # inv[i].sig) =>
                /\ owner[inv[i].port] # 0
                /\ procs[inv[i].data.pid] = TunnelProc(owner[inv[i].port])
          /\ (inv[i].pc = "ca_kill" /\ inv'[i].sig # inv[i].sig) =>
                /\ owner[inv[i].cur] # 0
                /\ procs[inv[i].data.pid] = TunnelProc(owner[inv[i].cur])
      ]_vars

\* C26: when no command is under way, every forwarding process that
\* start_tunnel spawned, registered and that is still running has its pid in
\* some record of the tunnel directory.
C26_NoOrphanedTunnel ==
    (\A i \in Invs : inv[i].pc \in {"idle", "done"}) =>
        \A n \in Spawns :
            (tunnels[n] = "registered" /\ TunnelAlive(n)) =>
                \E p \in Glob :
                    /\ JsonValid(registry[p])
                    /\ procs[JsonLoad(registry[p]).pid] = TunnelProc(n)

\* C27: a step of close_tunnel(p) leaves the file of every other port q as
\* it is and leaves running the tunnel process that the record of q was
\* written for; a step of list_tunnels changes no process, and the file it
\* unlinks is not the record of a tunnel process that is running.
C27_CloseOnlyItsPort ==
    [][\A i \in Invs :
          /\ (inv[i].cmd = "close_tunnel" /\ inv'[i] # inv[i]) =>
                \A q \in Ports \ {inv[i].port} :
                    /\ Exists(q) => (q \in DOMAIN registry' /\ registry'[q] = registry[q])
                    /\ ~Exists(q) => q \notin DOMAIN registry'
                    /\ OwnerAlive(q) =>
                          procs'[JsonLoad(registry[q]).pid] = TunnelProc(owner[q])
          /\ (inv[i].cmd = "list_tunnels" /\ inv'[i] # inv[i]) =>
                /\ procs' = procs
                /\ \A p \in Ports :
                      (p \in DOMAIN registry /\ p \notin DOMAIN registry') => ~OwnerAlive(p)
      ]_vars

\* C28: list_tunnels, close_tunnel and close_all_tunnels make no request to
\* the Bastion Control API, and none of their steps changes the lifecycle
\* state of a session: the session named in a record that was removed is in
\* the state it would be in without the command.
C28_ClosersLeaveSessions ==
    /\ [](\A i \in Invs :
            inv[i].cmd \in RegistryReaders =>
                \A k \in 1..Len(inv[i].log) : inv[i].log[k][1] \notin ApiRequests)
    /\ [][\A i \in Invs :
            (inv[i].cmd \in RegistryReaders /\ inv'[i] # inv[i]) =>
                sessions' = sessions]_vars

\* close_all_tunnels has removed the record of a tunnel whose process was
\* gone already, and the session the record named is still ACTIVE
C28_Witness ==
    \E i \in Invs :
        /\ CloseAllDone(i)
        /\ inv[i].exit = "ok"
        /\ inv[i].sig = {}
        /\ inv[i].data.session_id \in SessionIds
        /\ sessions[inv[i].data.session_id] = "ACTIVE"
        /\ Glob = {}

StartTunnelCallers == Orchestrators \cup {"start_tunnel"}

\* C29: a start_tunnel whose get-session or get-bastion came back without
\* data returns no pid, having spawned no process and opened no record file;
\* the two lookups change neither the tunnel directory nor the processes;
\* and the launch is reached only with the data of both lookups.
C29_LookupWithoutData ==
    /\ [](\A i \in Invs :
            inv[i].cmd \in StartTunnelCallers =>
                LET f == inv[i] IN
                /\ (/\ f.pc = "done"
                    /\ f.log # <<>>
                    /\ f.log[Len(f.log)] \in {<<"get-session", "ok">>, <<"get-bastion", "ok">>}) =>
                        /\ f.ret = NoPid
                        /\ f.spawn = 0
                        /\ f.pid = NoPid
                        /\ Entries(f, "Popen") \cup Entries(f, "open") \cup Entries(f, "exec") = {}
                /\ f.pc \in {"get_bastion", "spawn", "open", "dump", "execd"} => f.state # ""
                /\ f.pc \in {"spawn", "open", "dump", "execd"} => f.endpoint # "")
    /\ [][\A i \in Invs :
            (/\ inv[i].cmd \in StartTunnelCallers
             /\ inv[i].pc \in {"get_session", "get_bastion"}
             /\ inv'[i] # inv[i]) =>
                /\ registry' = registry
                /\ procs' = procs
                /\ nspawn' = nspawn]_vars

\* start_tunnel called directly: get-session gave the session, get-bastion
\* gave nothing; a record of an earlier tunnel is still in the directory
C29_Witness ==
    \E i \in Invs :
        /\ inv[i].cmd = "start_tunnel"
        /\ inv[i].pc = "done"
        /\ inv[i].bg
        /\ inv[i].log = << <<"get-session", "ok">>, <<"get-bastion", "ok">> >>
        /\ inv[i].endpoint = ""
        /\ inv[i].ret = NoPid
        /\ Glob # {}

\* C30: a delete_session whose prompt was answered with anything but y or
\* yes has returned normally (exit status 0) without a delete request; and
\* the prompt itself changes no session.
C30_DeclinedDeleteIsNoOp ==
    /\ [](\A i \in Invs :
            (/\ inv[i].cmd = "delete_session"
             /\ \E k \in Entries(inv[i], "confirm") : inv[i].log[k][2] \in {"n", "N", ""}) =>
                /\ inv[i].pc = "done"
                /\ inv[i].exit = "ok"
                /\ ~inv[i].confirmed
                /\ Entries(inv[i], "delete") = {})
    /\ [][\A i \in Invs :
            (inv[i].cmd = "delete_session" /\ inv[i].pc = "ds_confirm" /\ inv'[i] # inv[i]) =>
                sessions' = sessions]_vars

\* delete_session of an ACTIVE session, answered n: the command is over and
\* the session is ACTIVE
C30_Witness ==
    \E i \in Invs :
        /\ inv[i].cmd = "delete_session"
        /\ inv[i].pc = "done"
        /\ inv[i].exit = "ok"
        /\ inv[i].log = << <<"confirm", "n">> >>
        /\ inv[i].sid \in SessionIds
        /\ sessions[inv[i].sid] = "ACTIVE"

====
